---- MODULE Spec2Model ----
(***************************************************************************)
(* Model of the vocabulary drill application: the mixed quiz session       *)
(* (components/QuizMode.tsx, hosted by the App of unnamed/part_002) and    *)
(* the matching review session (components/ReviewMode.tsx, hosted by the   *)
(* App of unnamed/part_001).                                               *)
(*                                                                         *)
(* React is modelled as follows.  A handler invoked by a user event reads  *)
(* the current state.  A callback handed to setTimeout keeps the values    *)
(* of the render that created it: handleNext reads the currentRound of     *)
(* that render, while setCurrentRound(prev => prev + 1) acts on the        *)
(* current state.  State setters of a component that is no longer mounted  *)
(* do nothing; the onExit prop (handleGoHome) only uses a ref and a setter *)
(* of App and therefore always acts.  A component's state is discarded     *)
(* when it unmounts and is created afresh by the next mount.               *)
(*                                                                         *)
(* Math.random() is an input: every draw is taken from a set of outcomes   *)
(* (RandomIndex, Shuffles, ChunkLens).                                     *)
(***************************************************************************)
EXTENDS Integers, Sequences, FiniteSets, TLC

\* ------------------------------------------------------------------ bounds
\* Largest learned-word pool explored.
MaxPool == 5
\* Largest number of setTimeout callbacks pending at once.
MaxTimers == 2
\* Largest number of times a session component is mounted in one behaviour.
MaxSessions == 2

\* --------------------------------------------------------- program constants
TOTAL_ROUNDS == 10
\* the review round's slot count (for (let i = 0; i < 5; i++))
ReviewSlots == 5
\* the quiz matching sub-round's slot count (.slice(0, 3))
MatchingSlots == 3
\* the quiz refuses to render a session below this pool size
MinQuizWords == 4
\* null (no word, no selection); word identifiers are 1, 2, ...
Null == 0
\* generateImageForWord's default for retries
DefaultRetries == 5
\* the buffer added to the wait the service asks for, in milliseconds
RetryBuffer == 200

\* ------------------------------------------------------------- sequences
Range(s) == {s[i] : i \in 1..Len(s)}

Includes(s, x) == \E i \in 1..Len(s) : s[i] = x

Slice(s, a, b) == SubSeq(s, a + 1, IF b < Len(s) THEN b ELSE Len(s))

\* a slice that starts one character late
SliceFromNext(s, a) == SubSeq(s, a + 2, Len(s))

SliceFrom(s, a) == SubSeq(s, a + 1, Len(s))

Splice(s, i) == SubSeq(s, 1, i) \o SubSeq(s, i + 2, Len(s))

Rotate(s, k) ==
  IF Len(s) = 0 THEN s
  ELSE [i \in 1..Len(s) |-> s[((i - 1 + k) % Len(s)) + 1]]

IsPermutationOf(s, t) ==
  /\ Len(s) = Len(t)
  /\ \A x \in Range(s) \cup Range(t) :
       Cardinality({i \in 1..Len(s) : s[i] = x})
         = Cardinality({i \in 1..Len(t) : t[i] = x})

NoDuplicates(s) == \A i, j \in 1..Len(s) : s[i] = s[j] => i = j

\* ------------------------------------------------------------ randomness
\* The values of Math.random(), in thousandths, drawn where it picks a list
\* index: the lowest and the highest.
Randoms == {0, 999}

\* Math.floor(Math.random() * n)
RandomIndex(n) == {(r * n) \div 1000 : r \in Randoms}

\* The rearrangements drawn for a comparator shuffle: rotations by these
\* many places.
ShuffleShifts == {0, 1}

\* [...s].sort(() => 0.5 - Math.random()): some rearrangement of s
Shuffles(s) == {Rotate(s, k) : k \in ShuffleShifts}

\* Math.floor(Math.random() * 3) + 2
ChunkLens == 2..4

\* ------------------------------------------------------------- word data
\* The pool holds Word objects; a Word is represented by its id (1, 2, ...),
\* its other fields are functions of the id.  Strings are sequences of
\* characters.

\* Word.hiragana: the canonical reading
Hiragana(id) == IF id % 2 = 1 THEN <<"a", "b">> ELSE <<"b">>

\* Word.exampleSentence: logographic runs followed by bracketed readings.
\* The words that the draws of RandomIndex reach (the first and the last of
\* the pool) carry the richest sentences: word 1 two annotations and five
\* characters left after stripping, word 4 a repeated run and a bracket that
\* is never closed, word 5 no annotation at all.
ExampleSentence(id) ==
  CASE id % 5 = 1 -> <<"a", "K", "[", "b", "]", "L", "[", "c", "]", "d", "e">>
    [] id % 5 = 2 -> <<"K", "[", "a", "]", "b", "c">>
    [] id % 5 = 3 -> <<"a", "b">>
    [] id % 5 = 4 -> <<"a", "b", "[", "x", "]", "a", "b", "[">>
    [] OTHER      -> <<"a", "b", "c", "d", "e">>

\* the learned-word pool of n words
WordPool(n) == [i \in 1..n |-> i]

\* what the learner may type into the typing input
TypedInputs ==
  {<<>>, <<"a", "b">>, <<" ", "a", "b", " ">>, <<"b">>, <<"A", "B">>, <<"a", " ", "b">>}

\* a trim that removes nothing
KeepWhitespace(s) == s

\* String.prototype.trim
RECURSIVE TrimLeft(_)
TrimLeft(s) ==
  IF s # <<>> /\ Head(s) = " " THEN TrimLeft(Tail(s)) ELSE s

RECURSIVE TrimRight(_)
TrimRight(s) ==
  IF s # <<>> /\ s[Len(s)] = " " THEN TrimRight(SubSeq(s, 1, Len(s) - 1)) ELSE s

Trim(s) == TrimRight(TrimLeft(s))

\* a stripping that keeps the logographic characters only
KeepLogograms(s) == SelectSeq(s, LAMBDA c : c \in {"K", "L"})

\* s.replace(/\[.*?\]/g, ''): every "[" up to the nearest following "]" is
\* removed; a "[" with no "]" after it stays
RECURSIVE StripFurigana(_)
StripFurigana(s) ==
  IF s = <<>> THEN <<>>
  ELSE IF Head(s) = "[" /\ \E j \in 2..Len(s) : s[j] = "]"
       THEN LET j == CHOOSE k \in 2..Len(s) :
                       /\ s[k] = "]"
                       /\ \A m \in 2..(k - 1) : s[m] # "]"
            IN  StripFurigana(SubSeq(s, j + 1, Len(s)))
       ELSE <<Head(s)>> \o StripFurigana(Tail(s))

\* the while loop of setupRound: every chunk sequence it can push
RECURSIVE Chunkings(_)
Chunkings(remaining) ==
  IF Len(remaining) = 0 THEN {<<>>}
  ELSE UNION {{<<Slice(remaining, 0, len)>> \o rest :
                 rest \in Chunkings(IF len < Len(remaining)
                                      THEN SliceFrom(remaining, len) ELSE <<>>)} :
              len \in ChunkLens}

\* chunks.map((t, i) => ({id: i, text: t}))
Blocks(chunks) == [i \in 1..Len(chunks) |-> [id |-> i - 1, text |-> chunks[i]]]

\* blocks.map(b => b.text).join('')
RECURSIVE JoinText(_)
JoinText(blocks) ==
  IF blocks = <<>> THEN <<>> ELSE Head(blocks).text \o JoinText(Tail(blocks))

\* arr.filter(b => b.id !== id) on blocks
RemoveBlock(blocks, id) == SelectSeq(blocks, LAMBDA b : b.id # id)

\* a filter that keeps every word
KeepAllWords(ws, id) == ws

\* words.filter(w => w.id !== id)
OtherWords(ws, id) == SelectSeq(ws, LAMBDA w : w # id)

\* ------------------------------------------------------------------ state
VARIABLES
  \* App
  mode,              \* AppMode shown by App
  words,             \* learnedWords, handed to the session as props.words
  sessionActive,     \* sessionActiveRef.current
  \* the mounted session component
  inst,              \* how many session components have been mounted so far
  effectPending,     \* the mount effect (useEffect) has not run yet
  timers,            \* pending setTimeout(handleNext, ...) callbacks, oldest first
  onExitCalls,       \* per mounted component: how often its handleNext (next)
                     \* or final-round button (finish) and its exit buttons
                     \* (button) have invoked onExit
  roundCompleted,    \* the current round has been answered correctly / fully matched
  \* QuizMode
  currentRound, currentType, currentWord,
  matchingLeft, matchingRight, matchingPairs, selectedLeft,
  typingInput, typingFeedback,
  sentenceBlocks, userSentence, sentenceFeedback,
  listeningOptions, listeningFeedback, selectedOption,
  \* ReviewMode
  reviewRound, reviewSelectedLeft, matchedPairs, shuffledLeft, shuffledRight,
  \* App: the learning session and the startLearning run
  loading,              \* the loading state that disables the start button
  learnPc,              \* where the startLearning run is suspended: "idle",
                        \* "fetching" (await fetchNewWords), "generating"
                        \* (await generateImageForWord)
  newWords,             \* the batch the run has fetched
  loopI,                \* the loop index i of the run
  currentSessionWords,  \* the words of the flashcard session
  navigatedAway,        \* history: the user has navigated since the run
                        \* in progress was started
  \* generateImageForWord
  hasApiKey,            \* process.env.API_KEY is set
  genRetries,           \* the argument `retries`
  genPc,                \* "idle", "calling" (await generateImages), "waiting"
                        \* (await delay), "compressing" (await compressImage),
                        \* "returned"
  currentTry,           \* the local currentTry
  apiCalls,             \* how many times generateImages has been called
  lastOutcome,          \* how the last generateImages call ended
  waitTime,             \* the argument of the delay in progress
  genResult             \* what the call has returned

learnVars == <<loading, learnPc, newWords, loopI, currentSessionWords>>

imageVars ==
  <<hasApiKey, genRetries, genPc, currentTry, apiCalls, lastOutcome, waitTime,
    genResult>>

appVars == <<mode, words, sessionActive, learnVars, navigatedAway, imageVars>>

\* the user navigates: the run in progress, if there is one, has been left
NoteNavigation == navigatedAway' = (navigatedAway \/ learnPc # "idle")

\* no learning session, no startLearning run
LearnIdle ==
  /\ loading = FALSE
  /\ learnPc = "idle"
  /\ newWords = <<>>
  /\ loopI = 0
  /\ currentSessionWords = <<>>
  /\ navigatedAway = FALSE

\* generateImageForWord has not been called
ImageIdle ==
  /\ hasApiKey = TRUE
  /\ genRetries = 0
  /\ genPc = "idle"
  /\ currentTry = 0
  /\ apiCalls = 0
  /\ lastOutcome = "NONE"
  /\ waitTime = 0
  /\ genResult = "NONE"

hostVars == <<inst, effectPending, timers, onExitCalls, roundCompleted>>

matchingVars == <<matchingLeft, matchingRight, matchingPairs, selectedLeft>>

typingVars == <<typingInput, typingFeedback>>

sentenceVars == <<sentenceBlocks, userSentence, sentenceFeedback>>

listeningVars == <<listeningOptions, listeningFeedback, selectedOption>>

quizVars ==
  <<currentRound, currentType, currentWord, matchingVars, typingVars,
    sentenceVars, listeningVars>>

reviewVars ==
  <<reviewRound, reviewSelectedLeft, matchedPairs, shuffledLeft, shuffledRight>>

vars == <<appVars, hostVars, quizVars, reviewVars>>

QuizTypes == {"MATCHING", "TYPING", "SENTENCE", "LISTENING"}

\* the useState initial values of QuizMode
QuizFresh ==
  /\ currentRound' = 1
  /\ currentType' = "MATCHING"
  /\ currentWord' = Null
  /\ matchingLeft' = <<>>
  /\ matchingRight' = <<>>
  /\ matchingPairs' = <<>>
  /\ selectedLeft' = Null
  /\ typingInput' = <<>>
  /\ typingFeedback' = "NONE"
  /\ sentenceBlocks' = <<>>
  /\ userSentence' = <<>>
  /\ sentenceFeedback' = "NONE"
  /\ listeningOptions' = <<>>
  /\ listeningFeedback' = "NONE"
  /\ selectedOption' = Null

\* the useState initial values of ReviewMode
ReviewFresh ==
  /\ reviewRound' = 1
  /\ reviewSelectedLeft' = Null
  /\ matchedPairs' = <<>>
  /\ shuffledLeft' = <<>>
  /\ shuffledRight' = <<>>

\* --------------------------------------------------------------- QuizMode
\* a MATCHING setup whose right targets are taken one place further along
\* the shuffled pool than the left anchors
SetupMatchingOtherTargets ==
  \E shuffled \in Shuffles(words) :
    /\ matchingLeft' = Slice(shuffled, 0, MatchingSlots)
    /\ matchingRight' \in Shuffles(Slice(shuffled, 1, MatchingSlots + 1))
    /\ matchingPairs' = <<>>
    /\ selectedLeft' = Null

\* the MATCHING branch of setupRound
SetupMatching ==
  \E shuffled \in Shuffles(words) :
    LET pool == Slice(shuffled, 0, MatchingSlots) IN
    /\ matchingLeft' = pool
    /\ matchingRight' \in Shuffles(pool)
    /\ matchingPairs' = <<>>
    /\ selectedLeft' = Null

\* the SENTENCE branch of setupRound
SetupSentence(randomWord) ==
  LET cleanSentence == StripFurigana(ExampleSentence(randomWord)) IN
  \E chunks \in Chunkings(cleanSentence) :
    sentenceBlocks' \in Shuffles(Blocks(chunks))

\* the LISTENING branch of setupRound
SetupListening(randomWord) ==
  \E shuffled \in Shuffles(OtherWords(words, randomWord)) :
    LET wrongOptions == Slice(shuffled, 0, 3) IN
    listeningOptions' \in Shuffles(<<randomWord>> \o wrongOptions)

\* a setupRound that leaves the typing input of the round before
SetupRoundKeepingInput(types) ==
  IF Len(words) = 0
  THEN UNCHANGED <<currentType, currentWord, matchingVars, typingVars,
                   sentenceVars, listeningVars, roundCompleted>>
  ELSE \E nextType \in types, k \in RandomIndex(Len(words)) :
         LET randomWord == words[k + 1] IN
         /\ currentType' = nextType
         /\ currentWord' = randomWord
         /\ UNCHANGED typingInput
         /\ typingFeedback' = "NONE"
         /\ sentenceFeedback' = "NONE"
         /\ listeningFeedback' = "NONE"
         /\ selectedOption' = Null
         /\ userSentence' = <<>>
         /\ roundCompleted' = FALSE
         /\ IF nextType = "MATCHING" THEN SetupMatching ELSE UNCHANGED matchingVars
         /\ IF nextType = "SENTENCE" THEN SetupSentence(randomWord)
                                    ELSE UNCHANGED sentenceBlocks
         /\ IF nextType = "LISTENING" THEN SetupListening(randomWord)
                                     ELSE UNCHANGED listeningOptions

\* setupRound of QuizMode, drawing the quiz type from `types`
SetupRound(types) ==
  IF Len(words) = 0
  THEN UNCHANGED <<currentType, currentWord, matchingVars, typingVars,
                   sentenceVars, listeningVars, roundCompleted>>
  ELSE \E nextType \in types, k \in RandomIndex(Len(words)) :
         LET randomWord == words[k + 1] IN
         /\ currentType' = nextType
         /\ currentWord' = randomWord
         /\ typingInput' = <<>>
         /\ typingFeedback' = "NONE"
         /\ sentenceFeedback' = "NONE"
         /\ listeningFeedback' = "NONE"
         /\ selectedOption' = Null
         /\ userSentence' = <<>>
         /\ roundCompleted' = FALSE
         /\ IF nextType = "MATCHING" THEN SetupMatching ELSE UNCHANGED matchingVars
         /\ IF nextType = "SENTENCE" THEN SetupSentence(randomWord)
                                    ELSE UNCHANGED sentenceBlocks
         /\ IF nextType = "LISTENING" THEN SetupListening(randomWord)
                                     ELSE UNCHANGED listeningOptions

\* handleGoHome of App, reached through the onExit prop or the navigation bar;
\* leaving a session screen unmounts its component
HandleGoHome ==
  /\ sessionActive' = FALSE
  /\ mode' = "HOME"
  /\ QuizFresh
  /\ ReviewFresh
  /\ roundCompleted' = FALSE
  /\ effectPending' = FALSE
  /\ NoteNavigation
  /\ UNCHANGED <<words, learnVars, imageVars, inst>>

\* a setTimeout(handleNext, delay) callback: the component that created it,
\* the currentRound of the render that created it, and its delay
Timer(delay) == [inst |-> inst, round |-> currentRound, delay |-> delay]

\* the session component is on screen and its mount effect has run
QuizShown == mode = "QUIZ" /\ ~effectPending /\ Len(words) >= MinQuizWords

\* useEffect(() => { setupRound(); }, []) of QuizMode
QuizMountEffect(types) ==
  /\ mode = "QUIZ"
  /\ effectPending
  /\ effectPending' = FALSE
  /\ SetupRound(types)
  /\ UNCHANGED <<appVars, inst, timers, onExitCalls, currentRound, reviewVars>>

\* a handleMatchLeft that selects a matched anchor too
HandleMatchLeftUnguarded(id) ==
  /\ QuizShown
  /\ currentType = "MATCHING"
  /\ selectedLeft' = id
  /\ UNCHANGED <<appVars, hostVars, currentRound, currentType, currentWord,
                 matchingLeft, matchingRight, matchingPairs, typingVars,
                 sentenceVars, listeningVars, reviewVars>>

\* handleMatchLeft(id)
HandleMatchLeft(id) ==
  /\ QuizShown
  /\ currentType = "MATCHING"
  /\ IF ~Includes(matchingPairs, id)
     THEN selectedLeft' = id
     ELSE UNCHANGED selectedLeft
  /\ UNCHANGED <<appVars, hostVars, currentRound, currentType, currentWord,
                 matchingLeft, matchingRight, matchingPairs, typingVars,
                 sentenceVars, listeningVars, reviewVars>>

\* a handleMatchRight that keeps the active selection after a correct match
HandleMatchRightKeepingSelection(id) ==
  /\ QuizShown
  /\ currentType = "MATCHING"
  /\ IF selectedLeft = Null \/ Includes(matchingPairs, id)
     THEN UNCHANGED <<matchingPairs, selectedLeft, timers, roundCompleted>>
     ELSE IF selectedLeft = id
          THEN LET newPairs == Append(matchingPairs, id) IN
               /\ matchingPairs' = newPairs
               /\ UNCHANGED selectedLeft
               /\ IF Len(newPairs) = Len(matchingLeft)
                  THEN /\ Len(timers) < MaxTimers
                       /\ timers' = Append(timers, Timer(1000))
                       /\ roundCompleted' = TRUE
                  ELSE UNCHANGED <<timers, roundCompleted>>
          ELSE /\ selectedLeft' = Null
               /\ UNCHANGED <<matchingPairs, timers, roundCompleted>>
  /\ UNCHANGED <<appVars, inst, effectPending, onExitCalls, currentRound,
                 currentType, currentWord, matchingLeft, matchingRight,
                 typingVars, sentenceVars, listeningVars, reviewVars>>

\* a handleMatchRight that schedules the advance at every correct match
HandleMatchRightAlwaysScheduling(id) ==
  /\ QuizShown
  /\ currentType = "MATCHING"
  /\ IF selectedLeft = Null \/ Includes(matchingPairs, id)
     THEN UNCHANGED <<matchingPairs, selectedLeft, timers, roundCompleted>>
     ELSE IF selectedLeft = id
          THEN /\ matchingPairs' = Append(matchingPairs, id)
               /\ selectedLeft' = Null
               /\ Len(timers) < MaxTimers
               /\ timers' = Append(timers, Timer(1000))
               /\ roundCompleted' = TRUE
          ELSE /\ selectedLeft' = Null
               /\ UNCHANGED <<matchingPairs, timers, roundCompleted>>
  /\ UNCHANGED <<appVars, inst, effectPending, onExitCalls, currentRound,
                 currentType, currentWord, matchingLeft, matchingRight,
                 typingVars, sentenceVars, listeningVars, reviewVars>>

\* handleMatchRight(id)
HandleMatchRight(id) ==
  /\ QuizShown
  /\ currentType = "MATCHING"
  /\ IF selectedLeft = Null \/ Includes(matchingPairs, id)
     THEN UNCHANGED <<matchingPairs, selectedLeft, timers, roundCompleted>>
     ELSE IF selectedLeft = id
          THEN LET newPairs == Append(matchingPairs, id) IN
               /\ matchingPairs' = newPairs
               /\ selectedLeft' = Null
               /\ IF Len(newPairs) = Len(matchingLeft)
                  THEN /\ Len(timers) < MaxTimers
                       /\ timers' = Append(timers, Timer(1000))
                       /\ roundCompleted' = TRUE
                  ELSE UNCHANGED <<timers, roundCompleted>>
          ELSE /\ selectedLeft' = Null
               /\ UNCHANGED <<matchingPairs, timers, roundCompleted>>
  /\ UNCHANGED <<appVars, inst, effectPending, onExitCalls, currentRound,
                 currentType, currentWord, matchingLeft, matchingRight,
                 typingVars, sentenceVars, listeningVars, reviewVars>>

\* onChange of the typing input: setTypingInput(e.target.value)
TypeInput(value) ==
  /\ QuizShown
  /\ currentType = "TYPING" /\ currentWord # Null
  /\ typingInput' = value
  /\ UNCHANGED <<appVars, hostVars, currentRound, currentType, currentWord,
                 matchingVars, typingFeedback, sentenceVars, listeningVars,
                 reviewVars>>

\* a checkTyping that accepts no submission after a WRONG
CheckTypingUntilWrong ==
  /\ QuizShown
  /\ currentType = "TYPING" /\ currentWord # Null
  /\ typingFeedback # "WRONG"
  /\ IF Trim(typingInput) = Hiragana(currentWord)
     THEN /\ typingFeedback' = "CORRECT"
          /\ Len(timers) < MaxTimers
          /\ timers' = Append(timers, Timer(1500))
          /\ roundCompleted' = TRUE
     ELSE /\ typingFeedback' = "WRONG"
          /\ UNCHANGED <<timers, roundCompleted>>
  /\ UNCHANGED <<appVars, inst, effectPending, onExitCalls, currentRound,
                 currentType, currentWord, matchingVars, typingInput,
                 sentenceVars, listeningVars, reviewVars>>

\* checkTyping
CheckTyping ==
  /\ QuizShown
  /\ currentType = "TYPING" /\ currentWord # Null
  /\ IF Trim(typingInput) = Hiragana(currentWord)
     THEN /\ typingFeedback' = "CORRECT"
          /\ Len(timers) < MaxTimers
          /\ timers' = Append(timers, Timer(1500))
          /\ roundCompleted' = TRUE
     ELSE /\ typingFeedback' = "WRONG"
          /\ UNCHANGED <<timers, roundCompleted>>
  /\ UNCHANGED <<appVars, inst, effectPending, onExitCalls, currentRound,
                 currentType, currentWord, matchingVars, typingInput,
                 sentenceVars, listeningVars, reviewVars>>

\* a toggleSentenceBlock that leaves the moved block where it was
ToggleSentenceBlockCopying(block, isUsed) ==
  /\ QuizShown
  /\ currentType = "SENTENCE" /\ currentWord # Null
  /\ IF isUsed
     THEN /\ UNCHANGED userSentence
          /\ sentenceBlocks' = Append(sentenceBlocks, block)
     ELSE /\ UNCHANGED sentenceBlocks
          /\ userSentence' = Append(userSentence, block)
  /\ UNCHANGED <<appVars, hostVars, currentRound, currentType, currentWord,
                 matchingVars, typingVars, sentenceFeedback, listeningVars,
                 reviewVars>>

\* a toggleSentenceBlock whose return to the pool empties the whole answer
ToggleSentenceBlockClearing(block, isUsed) ==
  /\ QuizShown
  /\ currentType = "SENTENCE" /\ currentWord # Null
  /\ IF isUsed
     THEN /\ userSentence' = <<>>
          /\ sentenceBlocks' = sentenceBlocks \o userSentence
     ELSE /\ sentenceBlocks' = RemoveBlock(sentenceBlocks, block.id)
          /\ userSentence' = Append(userSentence, block)
  /\ UNCHANGED <<appVars, hostVars, currentRound, currentType, currentWord,
                 matchingVars, typingVars, sentenceFeedback, listeningVars,
                 reviewVars>>

\* toggleSentenceBlock(block, isUsed)
ToggleSentenceBlock(block, isUsed) ==
  /\ QuizShown
  /\ currentType = "SENTENCE" /\ currentWord # Null
  /\ IF isUsed
     THEN /\ userSentence' = RemoveBlock(userSentence, block.id)
          /\ sentenceBlocks' = Append(sentenceBlocks, block)
     ELSE /\ sentenceBlocks' = RemoveBlock(sentenceBlocks, block.id)
          /\ userSentence' = Append(userSentence, block)
  /\ UNCHANGED <<appVars, hostVars, currentRound, currentType, currentWord,
                 matchingVars, typingVars, sentenceFeedback, listeningVars,
                 reviewVars>>

\* a checkSentence that accepts every answer using all the blocks
CheckSentenceAnyOrder ==
  /\ QuizShown
  /\ currentType = "SENTENCE" /\ currentWord # Null
  /\ IF sentenceBlocks = <<>>
     THEN /\ sentenceFeedback' = "CORRECT"
          /\ Len(timers) < MaxTimers
          /\ timers' = Append(timers, Timer(1500))
          /\ roundCompleted' = TRUE
     ELSE /\ sentenceFeedback' = "WRONG"
          /\ UNCHANGED <<timers, roundCompleted>>
  /\ UNCHANGED <<appVars, inst, effectPending, onExitCalls, currentRound,
                 currentType, currentWord, matchingVars, typingVars,
                 sentenceBlocks, userSentence, listeningVars, reviewVars>>

\* checkSentence
CheckSentence ==
  /\ QuizShown
  /\ currentType = "SENTENCE" /\ currentWord # Null
  /\ LET attempt == JoinText(userSentence)
         target == StripFurigana(ExampleSentence(currentWord))
     IN  IF attempt = target
         THEN /\ sentenceFeedback' = "CORRECT"
              /\ Len(timers) < MaxTimers
              /\ timers' = Append(timers, Timer(1500))
              /\ roundCompleted' = TRUE
         ELSE /\ sentenceFeedback' = "WRONG"
              /\ UNCHANGED <<timers, roundCompleted>>
  /\ UNCHANGED <<appVars, inst, effectPending, onExitCalls, currentRound,
                 currentType, currentWord, matchingVars, typingVars,
                 sentenceBlocks, userSentence, listeningVars, reviewVars>>

\* a checkListening that accepts one selection per round only
CheckListeningOnce(selectedId) ==
  /\ QuizShown
  /\ currentType = "LISTENING" /\ currentWord # Null
  /\ listeningFeedback = "NONE"
  /\ selectedOption' = selectedId
  /\ IF selectedId = currentWord
     THEN /\ listeningFeedback' = "CORRECT"
          /\ Len(timers) < MaxTimers
          /\ timers' = Append(timers, Timer(1500))
          /\ roundCompleted' = TRUE
     ELSE /\ listeningFeedback' = "WRONG"
          /\ UNCHANGED <<timers, roundCompleted>>
  /\ UNCHANGED <<appVars, inst, effectPending, onExitCalls, currentRound,
                 currentType, currentWord, matchingVars, typingVars,
                 sentenceVars, listeningOptions, reviewVars>>

\* a checkListening whose option buttons are never disabled
CheckListeningNeverDisabled(selectedId) ==
  /\ QuizShown
  /\ currentType = "LISTENING" /\ currentWord # Null
  /\ selectedOption' = selectedId
  /\ IF selectedId = currentWord
     THEN /\ listeningFeedback' = "CORRECT"
          /\ Len(timers) < MaxTimers
          /\ timers' = Append(timers, Timer(1500))
          /\ roundCompleted' = TRUE
     ELSE /\ listeningFeedback' = "WRONG"
          /\ UNCHANGED <<timers, roundCompleted>>
  /\ UNCHANGED <<appVars, inst, effectPending, onExitCalls, currentRound,
                 currentType, currentWord, matchingVars, typingVars,
                 sentenceVars, listeningOptions, reviewVars>>

\* checkListening(selectedId), from an option button (disabled once CORRECT)
CheckListening(selectedId) ==
  /\ QuizShown
  /\ currentType = "LISTENING" /\ currentWord # Null
  /\ listeningFeedback # "CORRECT"
  /\ selectedOption' = selectedId
  /\ IF selectedId = currentWord
     THEN /\ listeningFeedback' = "CORRECT"
          /\ Len(timers) < MaxTimers
          /\ timers' = Append(timers, Timer(1500))
          /\ roundCompleted' = TRUE
     ELSE /\ listeningFeedback' = "WRONG"
          /\ UNCHANGED <<timers, roundCompleted>>
  /\ UNCHANGED <<appVars, inst, effectPending, onExitCalls, currentRound,
                 currentType, currentWord, matchingVars, typingVars,
                 sentenceVars, listeningOptions, reviewVars>>

\* the onExit prop called by component `who` from `caller`: handleGoHome
OnExit(who, caller) ==
  /\ onExitCalls' = [onExitCalls EXCEPT ![who][caller] = @ + 1]
  /\ HandleGoHome

\* A pending timer may fire once every older timer that is due no later has
\* fired: a younger timer overtakes an older one only with a shorter delay.
CanFire(i) ==
  /\ i \in 1..Len(timers)
  /\ \A j \in 1..(i - 1) : timers[j].delay > timers[i].delay

\* a handleNext whose last round sets nothing and calls nothing
HandleNextWithoutExit(t, types) ==
  IF t.round < TOTAL_ROUNDS /\ mode = "QUIZ" /\ t.inst = inst
  THEN /\ currentRound' = currentRound + 1
       /\ SetupRound(types)
       /\ UNCHANGED <<appVars, inst, effectPending, onExitCalls, reviewVars>>
  ELSE UNCHANGED <<appVars, inst, effectPending, onExitCalls,
                   roundCompleted, quizVars, reviewVars>>

\* handleNext of QuizMode run by the timer callback `t`
HandleNext(t, types) ==
  LET mounted == mode = "QUIZ" /\ t.inst = inst IN
  IF t.round < TOTAL_ROUNDS
  THEN IF mounted
       THEN /\ currentRound' = currentRound + 1
            /\ SetupRound(types)
            /\ UNCHANGED <<appVars, inst, effectPending, onExitCalls, reviewVars>>
       ELSE UNCHANGED <<appVars, inst, effectPending, onExitCalls,
                        roundCompleted, quizVars, reviewVars>>
  ELSE OnExit(t.inst, "finish")

\* a setTimeout(handleNext, ...) callback fires
FireTimer(i, types) ==
  /\ CanFire(i)
  /\ ~effectPending
  /\ timers' = Splice(timers, i - 1)
  /\ HandleNext(timers[i], types)

\* the exit button of QuizMode (both screens): onExit
QuizExitButton ==
  /\ mode = "QUIZ"
  /\ ~effectPending
  /\ OnExit(inst, "button")
  /\ UNCHANGED timers

\* ------------------------------------------------------- App (part_002)
\* the quiz button of the home screen, disabled below four learned words;
\* it mounts a new QuizMode
StartQuiz ==
  /\ mode = "HOME"
  /\ Len(words) >= MinQuizWords
  /\ inst < MaxSessions
  /\ sessionActive' = FALSE
  /\ mode' = "QUIZ"
  /\ inst' = inst + 1
  /\ effectPending' = TRUE
  /\ QuizFresh
  /\ roundCompleted' = FALSE
  /\ NoteNavigation
  /\ UNCHANGED <<words, learnVars, imageVars, timers, onExitCalls, reviewVars>>

\* the logo of the navigation bar, or the close button of the word list:
\* handleGoHome
NavHome ==
  /\ ~effectPending
  /\ HandleGoHome
  /\ UNCHANGED <<timers, onExitCalls>>

\* the word-list button of the navigation bar
NavVocabulary ==
  /\ ~effectPending
  /\ mode # "VOCABULARY"
  /\ sessionActive' = FALSE
  /\ mode' = "VOCABULARY"
  /\ QuizFresh
  /\ ReviewFresh
  /\ roundCompleted' = FALSE
  /\ NoteNavigation
  /\ UNCHANGED <<words, learnVars, imageVars, inst, effectPending, timers, onExitCalls>>

\* In the learning flow a Word is represented by its kanji: the number of a
\* learned word is its kanji, and a fetched word of the same number carries
\* the same kanji under a fresh id.
BatchKanji == {1, MaxPool + 1}

\* what fetchNewWords may resolve to: the words array of the model's answer
\* or the mock data, in any case a list of words the App takes as it is
Batches ==
  {<<>>} \cup {<<a>> : a \in BatchKanji}
         \cup {<<a, b>> : a \in BatchKanji, b \in BatchKanji}

\* currentSessionWords.filter(nw => !learnedWords.some(lw => lw.kanji === nw.kanji))
NewUniqueWords(session, learned) ==
  SelectSeq(session, LAMBDA nw : ~Includes(learned, nw))

\* startLearning from the loop test of iteration i on, up to its next await
\* or its end: the break on a cleared sessionActiveRef, the next call of
\* generateImageForWord, the installation of the session, the finally block
ResumeRun(ws, i) ==
  /\ IF i < Len(ws) /\ sessionActive
     THEN /\ learnPc' = "generating"
          /\ newWords' = ws
          /\ loopI' = i
          /\ UNCHANGED <<mode, loading, currentSessionWords, hostVars,
                         quizVars, reviewVars>>
     ELSE /\ learnPc' = "idle"
          /\ newWords' = <<>>
          /\ loopI' = 0
          /\ loading' = FALSE
          /\ IF sessionActive
             THEN /\ currentSessionWords' = ws
                  /\ mode' = "LEARN"
                  /\ QuizFresh
                  /\ ReviewFresh
                  /\ effectPending' = FALSE
                  /\ roundCompleted' = FALSE
                  /\ UNCHANGED <<inst, timers, onExitCalls>>
             ELSE UNCHANGED <<mode, currentSessionWords, hostVars, quizVars,
                              reviewVars>>
  /\ UNCHANGED <<words, sessionActive, navigatedAway, imageVars>>

\* the start button of the home screen: startLearning up to its first await
StartLearning ==
  /\ mode = "HOME"
  /\ ~loading
  /\ loading' = TRUE
  /\ sessionActive' = TRUE
  /\ learnPc' = "fetching"
  /\ navigatedAway' = FALSE
  /\ UNCHANGED <<mode, words, newWords, loopI, currentSessionWords, imageVars,
                 hostVars, quizVars, reviewVars>>

\* await fetchNewWords(level, existingKanji) resolves
FetchReturns(batch) ==
  /\ learnPc = "fetching"
  /\ ResumeRun(batch, 0)

\* await generateImageForWord(word.imagePrompt) resolves
ImageReturns ==
  /\ learnPc = "generating"
  /\ ResumeRun(newWords, loopI + 1)

\* startReviewFlashcards
StartReviewFlashcards ==
  /\ mode = "HOME"
  /\ Len(words) # 0
  /\ currentSessionWords' \in Shuffles(words)
  /\ mode' = "REVIEW_FLASHCARD"
  /\ NoteNavigation
  /\ UNCHANGED <<words, sessionActive, loading, learnPc, newWords, loopI, imageVars, hostVars,
                 quizVars, reviewVars>>

\* handleFinishBatch, from the last flashcard of the session
HandleFinishBatch ==
  /\ mode \in {"LEARN", "REVIEW_FLASHCARD"}
  /\ Len(currentSessionWords) > 0
  /\ sessionActive' = FALSE
  /\ IF mode = "LEARN"
     THEN words' = words \o NewUniqueWords(currentSessionWords, words)
     ELSE UNCHANGED words
  /\ mode' = "HOME"
  /\ currentSessionWords' = <<>>
  /\ NoteNavigation
  /\ UNCHANGED <<loading, learnPc, newWords, loopI, imageVars, hostVars, quizVars, reviewVars>>

\* the state of App and of the session components at rest on the home screen
AppAtRest(n) ==
  /\ LearnIdle
  /\ mode = "HOME"
  /\ words = WordPool(n)
  /\ sessionActive = FALSE
  /\ inst = 0
  /\ effectPending = FALSE
  /\ timers = <<>>
  /\ onExitCalls = [k \in 1..MaxSessions |-> [finish |-> 0, button |-> 0]]
  /\ roundCompleted = FALSE
  /\ currentRound = 1
  /\ currentType = "MATCHING"
  /\ currentWord = Null
  /\ matchingLeft = <<>>
  /\ matchingRight = <<>>
  /\ matchingPairs = <<>>
  /\ selectedLeft = Null
  /\ typingInput = <<>>
  /\ typingFeedback = "NONE"
  /\ sentenceBlocks = <<>>
  /\ userSentence = <<>>
  /\ sentenceFeedback = "NONE"
  /\ listeningOptions = <<>>
  /\ listeningFeedback = "NONE"
  /\ selectedOption = Null
  /\ reviewRound = 1
  /\ reviewSelectedLeft = Null
  /\ matchedPairs = <<>>
  /\ shuffledLeft = <<>>
  /\ shuffledRight = <<>>

\* App of part_002 at rest on the home screen with n learned words
InitApp(n) ==
  /\ AppAtRest(n)
  /\ ImageIdle

\* ------------------------------------------------------------- ReviewMode
\* a sampling loop that stops when its working copy is used up
RECURSIVE SampleWithoutRefill(_, _, _)
SampleWithoutRefill(ws, pool, n) ==
  IF n = 0 \/ Len(pool) = 0 THEN {<<>>}
  ELSE UNION {{<<pool[k + 1]>> \o rest :
                 rest \in SampleWithoutRefill(ws, Splice(pool, k), n - 1)} :
              k \in RandomIndex(Len(pool))}

\* a sampling loop that leaves the drawn word in its working copy
RECURSIVE SampleWithoutSplice(_, _, _)
SampleWithoutSplice(ws, pool, n) ==
  IF n = 0 THEN {<<>>}
  ELSE LET refilled == IF Len(pool) = 0 THEN ws ELSE pool IN
       UNION {{<<refilled[k + 1]>> \o rest :
                 rest \in SampleWithoutSplice(ws, refilled, n - 1)} :
              k \in RandomIndex(Len(refilled))}

\* a sampling loop that refills its working copy before the last word of it
\* is drawn
RECURSIVE SampleRefillingEarly(_, _, _)
SampleRefillingEarly(ws, pool, n) ==
  IF n = 0 THEN {<<>>}
  ELSE LET refilled == IF Len(pool) <= 1 THEN ws ELSE pool IN
       UNION {{<<refilled[k + 1]>> \o rest :
                 rest \in SampleRefillingEarly(ws, Splice(refilled, k), n - 1)} :
              k \in RandomIndex(Len(refilled))}

\* the sampling loop of setupRound: every roundWords it can build for the
\* `n` slots still to fill, `pool` being the working copy of `ws`
RECURSIVE SampleRound(_, _, _)
SampleRound(ws, pool, n) ==
  IF n = 0 THEN {<<>>}
  ELSE LET refilled == IF Len(pool) = 0 THEN ws ELSE pool IN
       UNION {{<<refilled[k + 1]>> \o rest :
                 rest \in SampleRound(ws, Splice(refilled, k), n - 1)} :
              k \in RandomIndex(Len(refilled))}

\* setupRound of ReviewMode.  A ReviewItem is represented by its word: its
\* targetType only selects which label of the word is rendered.
ReviewSetupRound ==
  IF Len(words) = 0
  THEN UNCHANGED <<reviewSelectedLeft, matchedPairs, shuffledLeft, shuffledRight>>
  ELSE \E roundWords \in SampleRound(words, words, ReviewSlots) :
         /\ shuffledLeft' \in Shuffles(roundWords)
         /\ shuffledRight' \in Shuffles(roundWords)
         /\ matchedPairs' = <<>>
         /\ reviewSelectedLeft' = Null

\* isRoundComplete
IsRoundComplete ==
  Len(shuffledLeft) > 0 /\ Len(matchedPairs) = Len(shuffledLeft)

\* the review screen (not the empty-pool screen) is shown
ReviewShown == mode = "REVIEW" /\ ~effectPending /\ Len(words) >= 1

\* a mount effect whose setupRound samples out of props.words itself
ReviewMountEffectOnPool ==
  /\ mode = "REVIEW"
  /\ effectPending
  /\ effectPending' = FALSE
  /\ ReviewSetupRound
  /\ words' = SelectSeq(words, LAMBDA w : ~Includes(shuffledLeft', w))
  /\ UNCHANGED <<mode, sessionActive, learnVars, navigatedAway, imageVars, inst,
                 timers, onExitCalls, roundCompleted, quizVars, reviewRound>>

\* useEffect(() => { setupRound(); }, [words]) of ReviewMode
ReviewMountEffect ==
  /\ mode = "REVIEW"
  /\ effectPending
  /\ effectPending' = FALSE
  /\ ReviewSetupRound
  /\ UNCHANGED <<appVars, inst, timers, onExitCalls, roundCompleted, quizVars,
                 reviewRound>>

\* a handleLeftClick that selects a matched card too
HandleLeftClickUnguarded(id) ==
  /\ ReviewShown
  /\ reviewSelectedLeft' = id
  /\ UNCHANGED <<appVars, hostVars, quizVars, reviewRound, matchedPairs,
                 shuffledLeft, shuffledRight>>

\* handleLeftClick(id)
HandleLeftClick(id) ==
  /\ ReviewShown
  /\ IF Includes(matchedPairs, id)
     THEN UNCHANGED reviewSelectedLeft
     ELSE reviewSelectedLeft' = id
  /\ UNCHANGED <<appVars, hostVars, quizVars, reviewRound, matchedPairs,
                 shuffledLeft, shuffledRight>>

\* a handleRightClick whose mismatch empties the matched set
HandleRightClickResetting(id) ==
  /\ ReviewShown
  /\ IF reviewSelectedLeft = Null \/ Includes(matchedPairs, id)
     THEN UNCHANGED <<matchedPairs, reviewSelectedLeft>>
     ELSE IF reviewSelectedLeft = id
          THEN /\ matchedPairs' = Append(matchedPairs, id)
               /\ reviewSelectedLeft' = Null
          ELSE /\ reviewSelectedLeft' = Null
               /\ matchedPairs' = <<>>
  /\ UNCHANGED <<appVars, hostVars, quizVars, reviewRound, shuffledLeft,
                 shuffledRight>>

\* a handleRightClick that keeps the active selection after a mismatch
HandleRightClickKeepingSelection(id) ==
  /\ ReviewShown
  /\ IF reviewSelectedLeft = Null \/ Includes(matchedPairs, id)
     THEN UNCHANGED <<matchedPairs, reviewSelectedLeft>>
     ELSE IF reviewSelectedLeft = id
          THEN /\ matchedPairs' = Append(matchedPairs, id)
               /\ reviewSelectedLeft' = Null
          ELSE UNCHANGED <<matchedPairs, reviewSelectedLeft>>
  /\ UNCHANGED <<appVars, hostVars, quizVars, reviewRound, shuffledLeft,
                 shuffledRight>>

\* handleRightClick(id)
HandleRightClick(id) ==
  /\ ReviewShown
  /\ IF reviewSelectedLeft = Null \/ Includes(matchedPairs, id)
     THEN UNCHANGED <<matchedPairs, reviewSelectedLeft>>
     ELSE IF reviewSelectedLeft = id
          THEN /\ matchedPairs' = Append(matchedPairs, id)
               /\ reviewSelectedLeft' = Null
          ELSE /\ reviewSelectedLeft' = Null
               /\ UNCHANGED matchedPairs
  /\ UNCHANGED <<appVars, hostVars, quizVars, reviewRound, shuffledLeft,
                 shuffledRight>>

\* a handleNextRound offered while the round is not complete too
HandleNextRoundAnytime ==
  /\ ReviewShown
  /\ reviewRound < TOTAL_ROUNDS
  /\ reviewRound' = reviewRound + 1
  /\ ReviewSetupRound
  /\ UNCHANGED <<appVars, hostVars, quizVars>>

\* handleNextRound, from the next-round button of the round-complete overlay
HandleNextRound ==
  /\ ReviewShown
  /\ IsRoundComplete
  /\ reviewRound < TOTAL_ROUNDS
  /\ IF reviewRound < TOTAL_ROUNDS
     THEN /\ reviewRound' = reviewRound + 1
          /\ ReviewSetupRound
          /\ UNCHANGED <<appVars, hostVars, quizVars>>
     ELSE /\ OnExit(inst, "finish")
          /\ UNCHANGED timers

\* the button of the final round-complete overlay: onExit
ReviewFinishButton ==
  /\ ReviewShown
  /\ IsRoundComplete
  /\ ~(reviewRound < TOTAL_ROUNDS)
  /\ OnExit(inst, "finish")
  /\ UNCHANGED timers

\* the exit button of ReviewMode (both screens): onExit
ReviewExitButton ==
  /\ mode = "REVIEW"
  /\ ~effectPending
  /\ OnExit(inst, "button")
  /\ UNCHANGED timers

\* ------------------------------------------------------- App (part_001)
\* the review buttons of the navigation bar and of the home screen; they
\* mount a new ReviewMode
StartReview ==
  /\ mode # "REVIEW"
  /\ ~effectPending
  /\ inst < MaxSessions
  /\ sessionActive' = FALSE
  /\ mode' = "REVIEW"
  /\ inst' = inst + 1
  /\ effectPending' = TRUE
  /\ QuizFresh
  /\ ReviewFresh
  /\ roundCompleted' = FALSE
  /\ NoteNavigation
  /\ UNCHANGED <<words, learnVars, imageVars, timers, onExitCalls>>

\* ------------------------------------------------------- geminiService
\* What await ai.models.generateImages(...) can deliver: a response with
\* image bytes, a response without, a rejection whose message names a rate
\* limit or an exhausted quota, and any other rejection.
ApiOutcomes == {"IMAGE", "NO_BYTES", "RATE_LIMIT", "ERROR"}

\* The waits, in seconds, a rate-limit message may ask for ("retry in 2s");
\* Null stands for a message without one.
RetryHints == {Null, 2}

\* what compressImage resolves with: the canvas export, or its argument
Compressions == {"compressed", "original"}

\* let waitTime = 1000 * Math.pow(2, currentTry), replaced by
\* Math.ceil(parseFloat(retryMatch[1]) * 1000) + 200 when the message has a hint
WaitTimeFor(try, hint) ==
  IF hint # Null THEN hint * 1000 + RetryBuffer ELSE 1000 * 2^try

\* return undefined
ReturnUndefined ==
  /\ genPc' = "returned"
  /\ genResult' = "undefined"

\* the loop test with a bound one too high: while (currentTry <= retries)
LoopTestInclusive(try) ==
  IF try <= genRetries'
    THEN /\ genPc' = "calling"
         /\ apiCalls' = apiCalls + 1
         /\ genResult' = genResult
    ELSE /\ ReturnUndefined
         /\ apiCalls' = apiCalls

\* the test of while (currentTry < retries) with currentTry = try: the body
\* awaits the next generateImages call, the exit falls to return undefined
LoopTest(try) ==
  IF try < genRetries'
    THEN /\ genPc' = "calling"
         /\ apiCalls' = apiCalls + 1
         /\ genResult' = genResult
    ELSE /\ ReturnUndefined
         /\ apiCalls' = apiCalls

imageRest == <<mode, words, sessionActive, learnVars, navigatedAway, hostVars,
               quizVars, reviewVars>>

\* generateImageForWord(prompt, retries) is called: up to its first await
GenerateImageForWord(retries) ==
  /\ genPc = "idle"
  /\ genRetries' = retries
  /\ currentTry' = 0
  /\ IF ~hasApiKey
       THEN /\ ReturnUndefined
            /\ apiCalls' = apiCalls
       ELSE LoopTest(0)
  /\ UNCHANGED <<hasApiKey, lastOutcome, waitTime, imageRest>>

\* await ai.models.generateImages(...) settles with outcome o, up to the
\* next await or the return
GenerateImagesSettles(o, hint) ==
  /\ genPc = "calling"
  /\ lastOutcome' = o
  /\ CASE o = "IMAGE" ->
            /\ genPc' = "compressing"
            /\ UNCHANGED <<waitTime, genResult>>
       [] o = "RATE_LIMIT" ->
            /\ waitTime' = WaitTimeFor(currentTry, hint)
            /\ genPc' = "waiting"
            /\ UNCHANGED genResult
       [] OTHER ->
            \* break after a response without bytes; return undefined in catch
            /\ ReturnUndefined
            /\ UNCHANGED waitTime
  /\ UNCHANGED <<hasApiKey, genRetries, currentTry, apiCalls, imageRest>>

\* await delay(waitTime) resolves: currentTry++; continue
DelayElapses ==
  /\ genPc = "waiting"
  /\ currentTry' = currentTry + 1
  /\ genRetries' = genRetries
  /\ LoopTest(currentTry + 1)
  /\ UNCHANGED <<hasApiKey, lastOutcome, waitTime, imageRest>>

\* await compressImage(...) resolves with c: return compressed
CompressImageResolves(c) ==
  /\ genPc = "compressing"
  /\ genPc' = "returned"
  /\ genResult' = c
  /\ UNCHANGED <<hasApiKey, genRetries, currentTry, apiCalls, lastOutcome,
                 waitTime, imageRest>>

\* ---------------------------------------------------------- specifications
\* The quiz App in the sessions whose every round draws TYPING.
Init == \E n \in 0..MaxPool : InitApp(n)

Next ==
  \/ StartQuiz
  \/ QuizMountEffect({"TYPING"})
  \/ \E value \in TypedInputs : TypeInput(value)
  \/ CheckTyping
  \/ \E i \in 1..MaxTimers : FireTimer(i, {"TYPING"})
  \/ QuizExitButton
  \/ NavHome
  \/ NavVocabulary

Spec == Init /\ [][Next]_vars

\* A session component just rendered by its App (effect pending) with n words.
InitMounted(m, n) ==
  /\ LearnIdle
  /\ ImageIdle
  /\ mode = m
  /\ words = WordPool(n)
  /\ sessionActive = FALSE
  /\ inst = 1
  /\ effectPending = TRUE
  /\ timers = <<>>
  /\ onExitCalls = [k \in 1..MaxSessions |-> [finish |-> 0, button |-> 0]]
  /\ roundCompleted = FALSE
  /\ currentRound = 1
  /\ currentType = "MATCHING"
  /\ currentWord = Null
  /\ matchingLeft = <<>>
  /\ matchingRight = <<>>
  /\ matchingPairs = <<>>
  /\ selectedLeft = Null
  /\ typingInput = <<>>
  /\ typingFeedback = "NONE"
  /\ sentenceBlocks = <<>>
  /\ userSentence = <<>>
  /\ sentenceFeedback = "NONE"
  /\ listeningOptions = <<>>
  /\ listeningFeedback = "NONE"
  /\ selectedOption = Null
  /\ reviewRound = 1
  /\ reviewSelectedLeft = Null
  /\ matchedPairs = <<>>
  /\ shuffledLeft = <<>>
  /\ shuffledRight = <<>>

\* The mounting of QuizMode and of ReviewMode over a pool of any size: the
\* first render, the mount effect with its round setup, and the exit button.
InitMount == \E m \in {"QUIZ", "REVIEW"}, n \in 0..MaxPool : InitMounted(m, n)

NextMount ==
  \/ QuizMountEffect(QuizTypes)
  \/ ReviewMountEffect
  \/ QuizExitButton
  \/ ReviewExitButton

SpecMount == InitMount /\ [][NextMount]_vars

\* A review session from its first render to its exit.
InitReview == \E n \in 0..MaxPool : InitMounted("REVIEW", n)

NextReview ==
  \/ ReviewMountEffect
  \/ \E id \in Range(shuffledLeft) : HandleLeftClick(id)
  \/ \E id \in Range(shuffledRight) : HandleRightClick(id)
  \/ HandleNextRound
  \/ ReviewFinishButton
  \/ ReviewExitButton

SpecReview == InitReview /\ [][NextReview]_vars

\* A quiz session that is never abandoned, from its first render on, in the
\* sessions whose rounds draw LISTENING or MATCHING; the mount effect and every
\* pending timer callback eventually run.
InitQuizSession == \E n \in MinQuizWords..MaxPool : InitMounted("QUIZ", n)

FairTypes == {"LISTENING", "MATCHING"}

NextQuizSession ==
  \/ QuizMountEffect(FairTypes)
  \/ \E id \in Range(matchingLeft) : HandleMatchLeft(id)
  \/ \E id \in Range(matchingRight) : HandleMatchRight(id)
  \/ \E id \in Range(listeningOptions) : CheckListening(id)
  \/ \E i \in 1..MaxTimers : FireTimer(i, FairTypes)

SpecQuizFair ==
  /\ InitQuizSession
  /\ [][NextQuizSession]_vars
  /\ WF_vars(QuizMountEffect(FairTypes))
  /\ WF_vars(\E i \in 1..MaxTimers : FireTimer(i, FairTypes))

\* A quiz session whose rounds draw SENTENCE, from its first render to its
\* exit.
NextSentence ==
  \/ QuizMountEffect({"SENTENCE"})
  \/ \E b \in Range(userSentence) : ToggleSentenceBlock(b, TRUE)
  \/ \E b \in Range(sentenceBlocks) : ToggleSentenceBlock(b, FALSE)
  \/ CheckSentence
  \/ \E i \in 1..MaxTimers : FireTimer(i, {"SENTENCE"})
  \/ QuizExitButton

SpecSentence == InitQuizSession /\ [][NextSentence]_vars

\* The matching engines: a quiz session whose rounds draw MATCHING, or a
\* review session, from the first render to the exit.
NextMatching ==
  \/ QuizMountEffect({"MATCHING"})
  \/ \E id \in Range(matchingLeft) : HandleMatchLeft(id)
  \/ \E id \in Range(matchingRight) : HandleMatchRight(id)
  \/ \E i \in 1..MaxTimers : FireTimer(i, {"MATCHING"})
  \/ QuizExitButton
  \/ NextReview

SpecMatching == InitMount /\ [][NextMatching]_vars

\* The validate operations of the engines called with any identifier, of the
\* round or not: handleMatchRight and checkListening of a quiz session whose
\* rounds draw LISTENING or MATCHING, handleRightClick of the first round of a
\* review session.
AnyIds == 1..(MaxPool + 1)

NextEngineCalls ==
  \/ QuizMountEffect(FairTypes)
  \/ \E id \in Range(matchingLeft) : HandleMatchLeft(id)
  \/ \E id \in AnyIds : HandleMatchRight(id)
  \/ \E id \in AnyIds : CheckListening(id)
  \/ \E i \in 1..MaxTimers : FireTimer(i, FairTypes)
  \/ ReviewMountEffect
  \/ \E id \in Range(shuffledLeft) : HandleLeftClick(id)
  \/ \E id \in AnyIds : HandleRightClick(id)

SpecEngineCalls == InitMount /\ [][NextEngineCalls]_vars

\* Quiz and review sessions round after round.  A quiz session draws the
\* type of its first round out of all four; every later round draws it out
\* of the pair of types the round before it belongs to, so a session stays
\* within TYPING and SENTENCE or within LISTENING and MATCHING.
TypePair(t) ==
  IF t \in {"TYPING", "SENTENCE"} THEN {"TYPING", "SENTENCE"}
                                   ELSE {"LISTENING", "MATCHING"}

NextRounds ==
  \/ QuizMountEffect(QuizTypes)
  \/ \E id \in Range(matchingLeft) : HandleMatchLeft(id)
  \/ \E id \in Range(matchingRight) : HandleMatchRight(id)
  \/ \E value \in TypedInputs : TypeInput(value)
  \/ CheckTyping
  \/ \E b \in Range(userSentence) : ToggleSentenceBlock(b, TRUE)
  \/ \E b \in Range(sentenceBlocks) : ToggleSentenceBlock(b, FALSE)
  \/ CheckSentence
  \/ \E id \in Range(listeningOptions) : CheckListening(id)
  \/ \E i \in 1..MaxTimers : FireTimer(i, TypePair(currentType))
  \/ QuizExitButton
  \/ NextReview

SpecRounds == InitMount /\ [][NextRounds]_vars

\* The App of part_002 with its learning flow: the startLearning run and the
\* navigation of the user interleave; a quiz session is mounted and left.
InitLearning == \E n \in {1, MinQuizWords} : InitApp(n)

NextLearning ==
  \/ StartLearning
  \/ \E batch \in Batches : FetchReturns(batch)
  \/ ImageReturns
  \/ StartReviewFlashcards
  \/ HandleFinishBatch
  \/ StartQuiz
  \/ QuizMountEffect({"TYPING"})
  \/ QuizExitButton
  \/ NavHome
  \/ NavVocabulary

SpecLearning == InitLearning /\ [][NextLearning]_vars

\* generateImageForWord called once, with or without an API key, with every
\* retries from 0 to the default, against every behaviour of the image API.
InitImage ==
  /\ AppAtRest(0)
  /\ hasApiKey \in BOOLEAN
  /\ genRetries = 0
  /\ genPc = "idle"
  /\ currentTry = 0
  /\ apiCalls = 0
  /\ lastOutcome = "NONE"
  /\ waitTime = 0
  /\ genResult = "NONE"

NextImage ==
  \/ \E retries \in 0..DefaultRetries : GenerateImageForWord(retries)
  \/ \E o \in ApiOutcomes, hint \in RetryHints : GenerateImagesSettles(o, hint)
  \/ DelayElapses
  \/ CompressImageResolves("compressed")
  \/ CompressImageResolves("original")

SpecImage == InitImage /\ [][NextImage]_vars

\* every promise the function awaits settles
SpecImageFair == SpecImage /\ WF_vars(NextImage)

\* ------------------------------------------------------------------ claims
\* a step in which the pending callback number i fires
Fired(i) ==
  /\ i \in 1..Len(timers)
  /\ Len(timers') = Len(timers) - 1
  /\ timers' = Splice(timers, i - 1)

\* a step within one mounted quiz session
SameQuizSession == mode = "QUIZ" /\ mode' = "QUIZ" /\ inst' = inst

\* C1: in a quiz session the round number changes only by +1 and only out of a
\* completed round, each completed round is advanced once, and handleNext
\* issues onExit exactly out of the completed round TOTAL_ROUNDS.
C1_RoundAdvancesOncePerCompletedRound ==
  [][/\ (SameQuizSession /\ currentRound' # currentRound)
          => (currentRound' = currentRound + 1 /\ roundCompleted)
     /\ \A k \in 1..MaxSessions :
          onExitCalls'[k].finish # onExitCalls[k].finish
            => (mode = "QUIZ" /\ inst = k /\ roundCompleted
                /\ currentRound = TOTAL_ROUNDS)
     /\ \A i \in 1..Len(timers) :
          (Fired(i) /\ mode = "QUIZ" /\ timers[i].inst = inst
             /\ roundCompleted /\ currentRound = TOTAL_ROUNDS)
            => onExitCalls'[inst].finish = onExitCalls[inst].finish + 1]_vars

\* C2: the round number of a quiz session and of a review session never
\* exceeds TOTAL_ROUNDS.
C2_RoundWithinTotal ==
  /\ currentRound <= TOTAL_ROUNDS
  /\ reviewRound <= TOTAL_ROUNDS

\* C3: an auto-advance callback of an abandoned quiz session (its component no
\* longer mounted) changes nothing when it fires: no round state, no round
\* number, no onExit call, no application mode.
C3_AbandonedTimerChangesNothing ==
  [][\A i \in 1..Len(timers) :
       (Fired(i) /\ ~(mode = "QUIZ" /\ timers[i].inst = inst))
         => UNCHANGED <<appVars, onExitCalls, quizVars>>]_vars

\* C4: an auto-advance callback scheduled in round r changes nothing when it
\* fires after a newer round has begun.
C4_StaleRoundTimerChangesNothing ==
  [][\A i \in 1..Len(timers) :
       (Fired(i) /\ mode = "QUIZ" /\ timers[i].inst = inst
          /\ timers[i].round # currentRound)
         => UNCHANGED <<appVars, onExitCalls, quizVars>>]_vars

\* C5: once a session has reached Finished (it has invoked onExit on finishing
\* its last round) it never invokes onExit again.
C5_FinishedExitsOnce ==
  [][\A k \in 1..MaxSessions :
       onExitCalls[k].finish >= 1 => onExitCalls'[k] = onExitCalls[k]]_vars

\* C6: QuizMode rendered over fewer than MinQuizWords words performs no round
\* initialisation: no type drawn, no word sampled, no round state set.
C6_SmallPoolNoRoundInit ==
  (mode = "QUIZ" /\ Len(words) < MinQuizWords)
    => /\ currentType = "MATCHING"
       /\ currentWord = Null
       /\ matchingLeft = <<>> /\ matchingRight = <<>>
       /\ sentenceBlocks = <<>>
       /\ listeningOptions = <<>>

\* C7: a review session over 1..3 words (over any non-empty pool) has its
\* round set up with exactly ReviewSlots slots on each side, every slot a word
\* of the pool; over an empty pool no round is set up.
C7_ReviewRoundFromSmallPool ==
  (mode = "REVIEW" /\ ~effectPending)
    => IF Len(words) = 0
       THEN shuffledLeft = <<>> /\ shuffledRight = <<>> /\ matchedPairs = <<>>
       ELSE /\ Len(shuffledLeft) = ReviewSlots
            /\ Len(shuffledRight) = ReviewSlots
            /\ Range(shuffledLeft) \subseteq Range(words)
            /\ Range(shuffledRight) \subseteq Range(words)

C7_Witness ==
  /\ mode = "REVIEW" /\ ~effectPending
  /\ Len(words) = 3
  /\ Len(shuffledLeft) = ReviewSlots
  /\ ~NoDuplicates(shuffledLeft)

\* C8: in a review session over a non-empty pool every round can be completed;
\* a round that is not complete therefore still shows a pair that the handlers
\* accept, i.e. an identifier not yet in matchedPairs.
C8_RoundCanBeCompleted ==
  ReviewShown
    => \/ IsRoundComplete
       \/ \E id \in Range(shuffledLeft) :
            Includes(shuffledRight, id) /\ ~Includes(matchedPairs, id)

\* the learner completes every round that is shown
LearnerCompletesEachRound == [](QuizShown /\ ~roundCompleted => <>roundCompleted)

C10_NoRepeatedIdInRound ==
  /\ (mode = "REVIEW" /\ ~effectPending /\ Len(words) >= ReviewSlots)
       => /\ Len(shuffledLeft) = ReviewSlots
          /\ NoDuplicates(shuffledLeft)
          /\ NoDuplicates(shuffledRight)
  /\ (QuizShown /\ currentType = "MATCHING")
       => /\ Len(matchingLeft) = MatchingSlots
          /\ NoDuplicates(matchingLeft)
          /\ NoDuplicates(matchingRight)

C10_Witness ==
  /\ mode = "REVIEW" /\ ~effectPending
  /\ Len(words) >= ReviewSlots
  /\ Len(shuffledLeft) = ReviewSlots
  /\ shuffledLeft # shuffledRight

\* a Listening round is on screen
ListeningShown == QuizShown /\ currentType = "LISTENING" /\ currentWord # Null

\* C11: over a pool of at least four words with unique identifiers a Listening
\* round shows exactly four options, pairwise distinct, all of the pool, and
\* exactly one of them is the round's target word.
C11_ListeningFourDistinctOptions ==
  ListeningShown
    => /\ Len(listeningOptions) = 4
       /\ NoDuplicates(listeningOptions)
       /\ Range(listeningOptions) \subseteq Range(words)
       /\ Cardinality({i \in 1..Len(listeningOptions) :
                         listeningOptions[i] = currentWord}) = 1

C11_Witness ==
  /\ ListeningShown
  /\ Len(words) = 5
  /\ Len(listeningOptions) = 4
  /\ listeningOptions[1] # currentWord
  /\ currentRound > 1

\* a step in which the learner's selection of an option is taken
ListeningSelected ==
  /\ ListeningShown
  /\ selectedOption' # Null
  /\ listeningOptions' = listeningOptions
  /\ selectedOption' # selectedOption \/ listeningFeedback' # listeningFeedback

\* C12: in a Listening round selecting the target's option sets CORRECT;
\* selecting another option sets WRONG, records the option, leaves the round
\* number and the target unchanged and schedules nothing; after a WRONG a
\* further selection (of any option) is still taken.
C12_ListeningSelection ==
  /\ [][ListeningSelected
          => /\ selectedOption' \in Range(listeningOptions)
             /\ IF selectedOption' = currentWord
                THEN listeningFeedback' = "CORRECT"
                ELSE /\ listeningFeedback' = "WRONG"
                     /\ UNCHANGED <<currentRound, currentType, currentWord,
                                    timers, roundCompleted>>]_vars
  /\ []((ListeningShown /\ listeningFeedback = "WRONG")
          => \A id \in Range(listeningOptions) \ {selectedOption} :
               ENABLED CheckListening(id))

C12_Witness ==
  /\ ListeningShown
  /\ listeningFeedback = "WRONG"
  /\ selectedOption # Null /\ selectedOption # currentWord
  /\ timers = <<>>

\* C13: while the feedback of a Listening round is CORRECT no option can be
\* selected, and exactly one callback scheduled in this round is pending.
C13_ListeningCorrectLocks ==
  (ListeningShown /\ listeningFeedback = "CORRECT")
    => /\ \A id \in Range(listeningOptions) : ~ENABLED CheckListening(id)
       /\ Cardinality({i \in 1..Len(timers) :
                         timers[i].inst = inst /\ timers[i].round = currentRound}) = 1
       /\ selectedOption = currentWord

C13_Witness ==
  /\ ListeningShown
  /\ listeningFeedback = "CORRECT"
  /\ Len(timers) = 1
  /\ currentRound = TOTAL_ROUNDS

\* a Typing round is on screen
TypingShown == QuizShown /\ currentType = "TYPING" /\ currentWord # Null

\* k blanks
Spaces(k) == [i \in 1..k |-> " "]

\* the input is the reading between leading and trailing blanks
PaddedReading(input, reading) ==
  \E i, j \in 0..Len(input) : input = Spaces(i) \o reading \o Spaces(j)

\* a step in which a submission of the typing input is validated
TypingSubmitted ==
  /\ TypingShown
  /\ typingFeedback' \in {"CORRECT", "WRONG"}
  /\ typingInput' = typingInput /\ currentRound' = currentRound
  /\ typingFeedback' # typingFeedback \/ Len(timers') > Len(timers)

\* C14: a Typing submission yields CORRECT exactly when the input without its
\* leading and trailing blanks is the target's reading; any other input
\* (other script, inner blank, empty) yields WRONG.
C14_TypingTrimmedEquality ==
  [][TypingSubmitted
       => (typingFeedback' = "CORRECT"
             <=> PaddedReading(typingInput, Hiragana(currentWord)))]_vars

C14_Witness ==
  /\ TypingShown
  /\ typingFeedback = "CORRECT"
  /\ typingInput = <<" ", "a", "b", " ">>

\* C15: a Typing submission that yields WRONG leaves the round number, the
\* type, the target and the pending callbacks unchanged; after a WRONG the
\* input can be changed and submitted again, and that submission is validated
\* on its own input.
C15_TypingWrongStaysInRound ==
  /\ [][/\ (TypingShown /\ typingFeedback' = "WRONG" /\ typingFeedback # "WRONG")
            => UNCHANGED <<currentRound, currentType, currentWord, timers,
                           roundCompleted, typingInput>>
        /\ (TypingSubmitted /\ typingFeedback = "WRONG")
            => (typingFeedback' = "CORRECT"
                  <=> PaddedReading(typingInput, Hiragana(currentWord)))]_vars
  /\ []((TypingShown /\ typingFeedback = "WRONG")
          => /\ \A value \in TypedInputs : ENABLED TypeInput(value)
             /\ (Len(timers) < MaxTimers => ENABLED CheckTyping))

C15_Witness ==
  /\ TypingShown
  /\ typingFeedback = "WRONG"
  /\ PaddedReading(typingInput, Hiragana(currentWord))
  /\ timers = <<>>

\* a Sentence round is on screen
SentenceShown == QuizShown /\ currentType = "SENTENCE" /\ currentWord # Null

\* the fragments of the round, wherever they are
RoundFragments == Range(sentenceBlocks) \cup Range(userSentence)

\* the fragments of the round in ascending id
FragmentsById ==
  [i \in 1..(Len(sentenceBlocks) + Len(userSentence)) |->
     CHOOSE b \in RoundFragments : b.id = i - 1]

\* the answer holds every fragment of the round, in ascending id
AnswerInOriginalOrder == sentenceBlocks = <<>> /\ userSentence = FragmentsById

\* a step in which the assembled answer is validated
SentenceSubmitted ==
  /\ SentenceShown
  /\ sentenceFeedback' \in {"CORRECT", "WRONG"}
  /\ userSentence' = userSentence /\ sentenceBlocks' = sentenceBlocks
  /\ currentRound' = currentRound
  /\ sentenceFeedback' # sentenceFeedback \/ Len(timers') > Len(timers)

\* C16: whatever the fragmentation, the texts of the round's fragments joined
\* in ascending id are the bracket-stripped example sentence of the target,
\* and validating the answer that holds all fragments in that order yields
\* CORRECT.
C16_OriginalOrderIsCorrect ==
  /\ [](SentenceShown
          => /\ \A i \in 0..(Len(sentenceBlocks) + Len(userSentence) - 1) :
                  \E b \in RoundFragments : b.id = i
             /\ JoinText(FragmentsById) = StripFurigana(ExampleSentence(currentWord)))
  /\ [][(SentenceSubmitted /\ AnswerInOriginalOrder)
          => sentenceFeedback' = "CORRECT"]_vars

C16_Witness ==
  /\ SentenceShown
  /\ AnswerInOriginalOrder
  /\ Len(userSentence) = 3
  /\ sentenceFeedback = "CORRECT"

\* C17: validating an answer whose joined texts differ from the stripped
\* target sentence yields WRONG, schedules nothing and leaves the round
\* number and the target unchanged; after a WRONG every fragment can still be
\* moved and the answer validated again.
C17_SentenceWrongStaysInRound ==
  /\ [][(SentenceSubmitted
           /\ JoinText(userSentence) # StripFurigana(ExampleSentence(currentWord)))
          => /\ sentenceFeedback' = "WRONG"
             /\ UNCHANGED <<currentRound, currentType, currentWord, timers,
                            roundCompleted>>]_vars
  /\ []((SentenceShown /\ sentenceFeedback = "WRONG")
          => /\ \A b \in Range(sentenceBlocks) : ENABLED ToggleSentenceBlock(b, FALSE)
             /\ \A b \in Range(userSentence) : ENABLED ToggleSentenceBlock(b, TRUE)
             /\ (Len(timers) < MaxTimers => ENABLED CheckSentence))

C17_Witness ==
  /\ SentenceShown
  /\ sentenceFeedback = "WRONG"
  /\ sentenceBlocks = <<>>
  /\ Len(userSentence) = 2
  /\ JoinText(userSentence) # StripFurigana(ExampleSentence(currentWord))

\* C18: in a Sentence round every fragment created by the round setup is in
\* exactly one of the block pool and the answer: no fragment twice, none in
\* both, and together they are the full fragment set of some fragmentation of
\* the target's stripped sentence.
C18_FragmentsPartitioned ==
  SentenceShown
    => /\ Range(sentenceBlocks) \cap Range(userSentence) = {}
       /\ NoDuplicates(sentenceBlocks)
       /\ NoDuplicates(userSentence)
       /\ \E chunks \in Chunkings(StripFurigana(ExampleSentence(currentWord))) :
            RoundFragments = Range(Blocks(chunks))

C18_Witness ==
  /\ SentenceShown
  /\ Len(sentenceBlocks) = 1
  /\ Len(userSentence) = 2
  /\ userSentence[1].id > userSentence[2].id
  /\ currentRound > 1

\* s is an initial part of t
IsPrefix(s, t) == Len(s) <= Len(t) /\ SubSeq(t, 1, Len(s)) = s

\* a step within one mounted session component
SameSession == mode' = mode /\ inst' = inst /\ mode \in {"QUIZ", "REVIEW"}

\* C19: in the quiz matching round and in the review round the matched set
\* holds no identifier twice and never more than the round's pair count;
\* within a round it only grows, and it is emptied only by the setup of the
\* next round.
C19_MatchedSetOnlyGrows ==
  /\ [](/\ NoDuplicates(matchingPairs)
         /\ Len(matchingPairs) <= Len(matchingLeft)
         /\ Range(matchingPairs) \subseteq Range(matchingLeft)
         /\ NoDuplicates(matchedPairs)
         /\ Len(matchedPairs) <= Len(shuffledLeft)
         /\ Range(matchedPairs) \subseteq Range(shuffledLeft))
  /\ [][SameSession
          => /\ \/ IsPrefix(matchingPairs, matchingPairs')
                \/ matchingPairs' = <<>> /\ currentRound' = currentRound + 1
             /\ \/ IsPrefix(matchedPairs, matchedPairs')
                \/ matchedPairs' = <<>> /\ reviewRound' = reviewRound + 1]_vars

C19_Witness ==
  /\ mode = "REVIEW"
  /\ reviewRound = 2
  /\ Len(matchedPairs) = 2
  /\ reviewSelectedLeft # Null

\* C20: no step of a quiz or review session (the round setup with its
\* sampling, slicing and shuffling, the selections and their validation, the
\* advance to the next round, the exit) changes props.words: the pool is the
\* one the session was started with, in length, order and items.
C20_PoolNeverChanged ==
  /\ [](words = WordPool(Len(words)))
  /\ [][words' = words]_vars

C20_Witness ==
  /\ mode = "REVIEW" /\ ~effectPending
  /\ reviewRound = 2
  /\ Len(matchedPairs) = 1
  /\ shuffledLeft # words
  /\ words = WordPool(5)

NoAnnotation(s) ==
  ~\E i, j \in 1..Len(s) : i < j /\ s[i] = "[" /\ s[j] = "]"

\* C22: for a target whose example sentence has no bracketed annotation the
\* stripping returns the sentence itself, the round's fragments partition
\* that unmodified text, and validating them in the original order yields
\* CORRECT.
C22_UnannotatedSentence ==
  /\ []((SentenceShown /\ NoAnnotation(ExampleSentence(currentWord)))
          => /\ StripFurigana(ExampleSentence(currentWord))
                  = ExampleSentence(currentWord)
             /\ JoinText(FragmentsById) = ExampleSentence(currentWord))
  /\ [][(/\ SentenceSubmitted
          /\ NoAnnotation(ExampleSentence(currentWord))
          /\ AnswerInOriginalOrder)
          => sentenceFeedback' = "CORRECT"]_vars

C22_Witness ==
  /\ SentenceShown
  /\ NoAnnotation(ExampleSentence(currentWord))
  /\ AnswerInOriginalOrder
  /\ Len(userSentence) >= 2
  /\ sentenceFeedback = "CORRECT"

\* C23: every fragment made by the Sentence round setup is 2 to 4 characters
\* long.
C23_FragmentLengths ==
  SentenceShown => \A b \in RoundFragments : Len(b.text) \in ChunkLens

\* fragment b goes from the pool to the end of the answer
MovedToAnswer(b) ==
  /\ b \in Range(sentenceBlocks)
  /\ userSentence' = Append(userSentence, b)
  /\ Range(sentenceBlocks') = Range(sentenceBlocks) \ {b}
  /\ Len(sentenceBlocks') = Len(sentenceBlocks) - 1

\* fragment b goes from the answer back to the pool, the rest of the answer
\* keeping its order
MovedBack(b) ==
  /\ b \in Range(userSentence)
  /\ userSentence' = SelectSeq(userSentence, LAMBDA x : x # b)
  /\ Len(userSentence') = Len(userSentence) - 1
  /\ Range(sentenceBlocks') = Range(sentenceBlocks) \cup {b}
  /\ Len(sentenceBlocks') = Len(sentenceBlocks) + 1

\* C24: in every state of a Sentence round, whatever the feedback, every
\* fragment of the pool can be moved to the answer and every fragment of the
\* answer can be moved back; within a round the pool and the answer change
\* by such moves only; and the fragment just moved to the answer, moved back,
\* gives the answer sequence and the pool set of before the move.
C24_FragmentMovesReversible ==
  /\ [](SentenceShown
          => /\ \A b \in Range(sentenceBlocks) :
                   ENABLED (ToggleSentenceBlock(b, FALSE) /\ MovedToAnswer(b))
             /\ \A b \in Range(userSentence) :
                   ENABLED (ToggleSentenceBlock(b, TRUE) /\ MovedBack(b)))
  /\ [][(/\ SentenceShown /\ SameQuizSession
          /\ currentRound' = currentRound /\ Len(timers') >= Len(timers)
          /\ <<sentenceBlocks, userSentence>>' # <<sentenceBlocks, userSentence>>)
          => /\ \E b \in RoundFragments : MovedToAnswer(b) \/ MovedBack(b)
             /\ sentenceFeedback' = sentenceFeedback]_vars
  /\ [][\A b \in Range(sentenceBlocks) :
          (SentenceShown /\ MovedToAnswer(b))
            => /\ SelectSeq(userSentence', LAMBDA x : x # b) = userSentence
               /\ Range(sentenceBlocks') \cup {b} = Range(sentenceBlocks)
               /\ Len(userSentence') - 1 = Len(userSentence)]_vars

C24_Witness ==
  /\ SentenceShown
  /\ sentenceFeedback = "WRONG"
  /\ Len(userSentence) = 2
  /\ Len(sentenceBlocks) = 1
  /\ userSentence[1].id > userSentence[2].id

\* a quiz Matching round is on screen
MatchingShown == QuizShown /\ currentType = "MATCHING"

\* a step of one quiz Matching round (no setup, no advance)
InMatchingRound ==
  /\ MatchingShown /\ SameQuizSession
  /\ currentRound' = currentRound /\ Len(timers') >= Len(timers)

\* a step of one review round
InReviewRound ==
  /\ ReviewShown /\ SameSession /\ reviewRound' = reviewRound

\* the round state of the quiz outside the matched set and the selection
matchingRest ==
  <<currentRound, currentType, currentWord, matchingLeft, matchingRight,
    typingVars, sentenceVars, listeningVars>>

\* the round state of the review outside the matched set and the selection
reviewRest == <<reviewRound, shuffledLeft, shuffledRight>>

\* C25: with an active left selection, selecting the right target of the same
\* identifier is possible and adds exactly that identifier to the matched
\* set and clears the selection; every step of a round that changes the
\* matched set is such a match, and it changes nothing else of the round.
C25_MatchAddsSelected ==
  /\ []((MatchingShown /\ selectedLeft # Null
            /\ (Len(matchingPairs) + 1 = Len(matchingLeft)
                   => Len(timers) < MaxTimers))
          => ENABLED (/\ HandleMatchRight(selectedLeft)
                      /\ matchingPairs' = Append(matchingPairs, selectedLeft)
                      /\ selectedLeft' = Null
                      /\ UNCHANGED matchingRest))
  /\ []((ReviewShown /\ reviewSelectedLeft # Null)
          => ENABLED (/\ HandleRightClick(reviewSelectedLeft)
                      /\ matchedPairs' = Append(matchedPairs, reviewSelectedLeft)
                      /\ reviewSelectedLeft' = Null
                      /\ UNCHANGED reviewRest))
  /\ [][(InMatchingRound /\ matchingPairs' # matchingPairs)
          => /\ selectedLeft # Null
             /\ matchingPairs' = Append(matchingPairs, selectedLeft)
             /\ selectedLeft' = Null
             /\ UNCHANGED matchingRest]_vars
  /\ [][(InReviewRound /\ matchedPairs' # matchedPairs)
          => /\ reviewSelectedLeft # Null
             /\ matchedPairs' = Append(matchedPairs, reviewSelectedLeft)
             /\ reviewSelectedLeft' = Null
             /\ UNCHANGED reviewRest]_vars

C25_Witness ==
  /\ \/ MatchingShown /\ Len(matchingPairs) = 2 /\ selectedLeft = Null
     \/ ReviewShown /\ Len(matchedPairs) = 2 /\ reviewSelectedLeft = Null
  /\ Len(timers) = 0

\* the quiz selection is cleared and no other variable changes
OnlyQuizSelectionCleared ==
  /\ selectedLeft' = Null
  /\ UNCHANGED <<appVars, hostVars, matchingPairs, matchingRest, reviewVars>>

\* the review selection is cleared and no other variable changes
OnlyReviewSelectionCleared ==
  /\ reviewSelectedLeft' = Null
  /\ UNCHANGED <<appVars, hostVars, quizVars, matchedPairs, reviewRest>>

\* C26: with an active left selection, selecting an unmatched right target
\* of another identifier clears the selection and changes no other variable:
\* the matched set is as before and no state keeps a trace of the mistake.
\* Every step of a round that clears the selection and leaves the matched
\* set alone changes nothing else.
C26_MismatchOnlyClearsSelection ==
  /\ [](MatchingShown /\ selectedLeft # Null
          => \A id \in Range(matchingRight) :
               (id # selectedLeft /\ ~Includes(matchingPairs, id))
                 => /\ ENABLED (HandleMatchRight(id) /\ OnlyQuizSelectionCleared)
                    /\ ~ENABLED (HandleMatchRight(id) /\ ~OnlyQuizSelectionCleared))
  /\ [](ReviewShown /\ reviewSelectedLeft # Null
          => \A id \in Range(shuffledRight) :
               (id # reviewSelectedLeft /\ ~Includes(matchedPairs, id))
                 => /\ ENABLED (HandleRightClick(id) /\ OnlyReviewSelectionCleared)
                    /\ ~ENABLED (HandleRightClick(id) /\ ~OnlyReviewSelectionCleared))
  /\ [][(/\ InMatchingRound /\ selectedLeft # Null /\ selectedLeft' = Null
          /\ matchingPairs' = matchingPairs)
          => OnlyQuizSelectionCleared]_vars
  /\ [][(/\ InReviewRound /\ reviewSelectedLeft # Null
          /\ reviewSelectedLeft' = Null /\ matchedPairs' = matchedPairs)
          => OnlyReviewSelectionCleared]_vars

\* a selection was made after the first match and cleared again by a
\* mismatch: the matched set still holds one pair
C26_Witness ==
  \/ /\ MatchingShown /\ Len(matchingPairs) = 1 /\ selectedLeft # Null
     /\ \E id \in Range(matchingRight) :
          /\ id # selectedLeft /\ ~Includes(matchingPairs, id)
          /\ ENABLED (HandleMatchRight(id) /\ OnlyQuizSelectionCleared)
  \/ /\ ReviewShown /\ Len(matchedPairs) = 1 /\ reviewSelectedLeft # Null
     /\ \E id \in Range(shuffledRight) :
          /\ id # reviewSelectedLeft /\ ~Includes(matchedPairs, id)
          /\ ENABLED (HandleRightClick(id) /\ OnlyReviewSelectionCleared)

\* C27: selecting a right target with no active left selection, selecting a
\* right target that is already matched and selecting a left anchor that is
\* already matched are accepted and change no variable: matched set,
\* selection, round number and pending advances are as before.
C27_MatchingNoOps ==
  /\ MatchingShown
       => /\ \A id \in Range(matchingRight) :
                (selectedLeft = Null \/ Includes(matchingPairs, id))
                  => /\ ENABLED HandleMatchRight(id)
                     /\ ~ENABLED (HandleMatchRight(id) /\ vars' # vars)
          /\ \A id \in Range(matchingLeft) :
                Includes(matchingPairs, id)
                  => /\ ENABLED HandleMatchLeft(id)
                     /\ ~ENABLED (HandleMatchLeft(id) /\ vars' # vars)
  /\ ReviewShown
       => /\ \A id \in Range(shuffledRight) :
                (reviewSelectedLeft = Null \/ Includes(matchedPairs, id))
                  => /\ ENABLED HandleRightClick(id)
                     /\ ~ENABLED (HandleRightClick(id) /\ vars' # vars)
          /\ \A id \in Range(shuffledLeft) :
                Includes(matchedPairs, id)
                  => /\ ENABLED HandleLeftClick(id)
                     /\ ~ENABLED (HandleLeftClick(id) /\ vars' # vars)

\* one pair is matched and another anchor is selected: selecting the matched
\* anchor or the matched target would show in the selection if it acted
C27_Witness ==
  /\ MatchingShown
  /\ Len(matchingPairs) = 1
  /\ selectedLeft # Null
  /\ Len(timers) = 0
  /\ ENABLED HandleMatchLeft(matchingPairs[1])
  /\ ENABLED HandleMatchRight(matchingPairs[1])

\* the pending advances scheduled by the current round of this session
RoundAdvances ==
  {i \in 1..Len(timers) :
     timers[i].inst = inst /\ timers[i].round = currentRound}

\* C29: a quiz Matching round has three left anchors; a step of the round
\* schedules an advance exactly when it is the match that brings the matched
\* set to the number of left anchors, and then it schedules one with the
\* delay of 1000 ms; so an incomplete round has no advance pending and a
\* complete round has exactly one.
C29_AdvanceScheduledAtLastMatch ==
  /\ [](MatchingShown
          => /\ Len(matchingLeft) = MatchingSlots
             /\ Cardinality(RoundAdvances)
                  = IF Len(matchingPairs) = Len(matchingLeft) THEN 1 ELSE 0)
  /\ [][InMatchingRound
          => /\ timers' # timers
                  <=> /\ Len(matchingPairs') = Len(matchingPairs) + 1
                      /\ Len(matchingPairs') = Len(matchingLeft)
             /\ timers' # timers => timers' = Append(timers, Timer(1000))]_vars

C29_Witness ==
  /\ MatchingShown
  /\ currentRound = 2
  /\ Len(matchingPairs) = MatchingSlots
  /\ Cardinality(RoundAdvances) = 1

\* C28: in a review session the step that completes a round leaves the round
\* number and the round's cards as they are; the round number changes only
\* by +1, out of a complete round below TOTAL_ROUNDS, and the cards are laid
\* out anew only with it; the advance is not available in a round that is
\* incomplete or is round TOTAL_ROUNDS; the finishing exit is available
\* exactly in the complete round TOTAL_ROUNDS.
C28_ReviewAdvancesOnSignalOnly ==
  /\ [](ReviewShown
          => /\ reviewRound \in 1..TOTAL_ROUNDS
             /\ ~(IsRoundComplete /\ reviewRound < TOTAL_ROUNDS)
                  => ~ENABLED HandleNextRound
             /\ ENABLED ReviewFinishButton
                  <=> (IsRoundComplete /\ reviewRound = TOTAL_ROUNDS))
  /\ [][(ReviewShown /\ SameSession /\ ~IsRoundComplete /\ IsRoundComplete')
          => /\ UNCHANGED <<reviewRound, shuffledLeft, shuffledRight>>
             /\ Len(matchedPairs') = Len(matchedPairs) + 1]_vars
  /\ [][(/\ ReviewShown /\ SameSession
          /\ <<reviewRound, shuffledLeft, shuffledRight>>'
                # <<reviewRound, shuffledLeft, shuffledRight>>)
          => /\ reviewRound' = reviewRound + 1
             /\ IsRoundComplete
             /\ reviewRound < TOTAL_ROUNDS]_vars

C28_Witness ==
  /\ ReviewShown
  /\ reviewRound = TOTAL_ROUNDS
  /\ IsRoundComplete
  /\ ENABLED ReviewFinishButton

\* the state of a quiz round no answer has been given in
QuizRoundFresh ==
  /\ typingFeedback = "NONE"
  /\ sentenceFeedback = "NONE"
  /\ listeningFeedback = "NONE"
  /\ typingInput = <<>>
  /\ userSentence = <<>>
  /\ selectedOption = Null
  /\ currentType = "MATCHING" => (matchingPairs = <<>> /\ selectedLeft = Null)

\* C30: every step of a quiz session that sets a round up (the mount effect,
\* an advance of the round number) ends in a state whose typing, sentence
\* and listening feedback are NONE, typing input and sentence answer empty,
\* no listening option selected, and, in a Matching round, matched set empty
\* and no selection; every step of a review session that sets a round up
\* ends with an empty matched set and no selection.
C30_RoundsStartFresh ==
  /\ [][(/\ SameQuizSession
          /\ \/ effectPending /\ ~effectPending'
             \/ currentRound' # currentRound)
          => QuizRoundFresh']_vars
  /\ [][(/\ SameSession /\ mode = "REVIEW"
          /\ \/ effectPending /\ ~effectPending'
             \/ reviewRound' # reviewRound)
          => (matchedPairs' = <<>> /\ reviewSelectedLeft' = Null)]_vars

\* the second round of a quiz session, just set up: the round before it
\* ended on a filled-in answer and the feedback CORRECT
C30_Witness ==
  /\ QuizShown
  /\ currentRound = 2
  /\ currentType = "SENTENCE"
  /\ ~roundCompleted
  /\ Len(timers) = 0
  /\ QuizRoundFresh

\* the number of slots of `cards` that item w fills
SlotsOf(cards, w) == Cardinality({i \in 1..Len(cards) : cards[i] = w})

\* C31: a review round drawn from a pool of N < 5 items fills exactly 5
\* slots on each side, and every item of the pool fills floor(5/N) or
\* ceil(5/N) of them.
C31_BalancedRepetition ==
  (mode = "REVIEW" /\ ~effectPending /\ Len(words) \in 1..(ReviewSlots - 1))
    => LET N == Len(words) IN
       /\ Len(shuffledLeft) = ReviewSlots
       /\ Len(shuffledRight) = ReviewSlots
       /\ \A w \in Range(words) :
            /\ SlotsOf(shuffledLeft, w)
                 \in {ReviewSlots \div N, (ReviewSlots + N - 1) \div N}
            /\ SlotsOf(shuffledRight, w) = SlotsOf(shuffledLeft, w)

C31_Witness ==
  /\ mode = "REVIEW" /\ ~effectPending
  /\ Len(words) = 3
  /\ Len(shuffledLeft) = ReviewSlots
  /\ \E w \in Range(words) : SlotsOf(shuffledLeft, w) = 1
  /\ \E w \in Range(words) : SlotsOf(shuffledLeft, w) = 2

\* the pending advances scheduled by this quiz session
SessionAdvances == {i \in 1..Len(timers) : timers[i].inst = inst}

\* C32: in every state of a quiz session at most one automatic advance of
\* the session is pending.
C32_AtMostOneAdvancePending ==
  QuizShown => Cardinality(SessionAdvances) <= 1

\* the feedback the round on screen displays
RoundFeedback ==
  CASE currentType = "TYPING"    -> typingFeedback
    [] currentType = "SENTENCE"  -> sentenceFeedback
    [] currentType = "LISTENING" -> listeningFeedback
    [] OTHER                     -> "NONE"

\* C33: in a Typing, Sentence or Listening round the displayed feedback is
\* CORRECT whenever an advance scheduled by the round is pending, so the
\* feedback stays CORRECT from the scheduling to the setup of the next round
\* and no round advances out of a state displaying WRONG or NONE.
C33_PendingAdvanceMeansCorrect ==
  (QuizShown /\ currentType \in {"TYPING", "SENTENCE", "LISTENING"}
     /\ RoundAdvances # {})
    => RoundFeedback = "CORRECT"

\* C34: the active left selection of the quiz Matching round and of the
\* review round is nothing or one left anchor of the round, and it is never
\* an identifier of the matched set.
C34_SelectionNeverMatched ==
  /\ ~Includes(matchingPairs, selectedLeft)
  /\ ~Includes(matchedPairs, reviewSelectedLeft)
  /\ MatchingShown => selectedLeft \in {Null} \cup Range(matchingLeft)
  /\ ReviewShown => reviewSelectedLeft \in {Null} \cup Range(shuffledLeft)

C34_Witness ==
  /\ ReviewShown
  /\ Len(matchedPairs) = 3
  /\ reviewSelectedLeft # Null
  /\ ~Includes(matchedPairs, reviewSelectedLeft)

\* C35: in a Sentence round whose stripped target sentence is not empty,
\* while the feedback is CORRECT the pool is empty and the answer holds
\* every fragment of the round.
C35_CorrectMeansAllFragmentsUsed ==
  (/\ SentenceShown
   /\ StripFurigana(ExampleSentence(currentWord)) # <<>>
   /\ sentenceFeedback = "CORRECT")
    => /\ sentenceBlocks = <<>>
       /\ JoinText(userSentence) = StripFurigana(ExampleSentence(currentWord))

\* C36: in a quiz Matching round the right targets are the left anchors in
\* some order, each identifier once on each side; every anchor that is not
\* matched yet can be selected, and its own target, once it is selected, can
\* be matched, so the round can always be brought to completion.
C36_TargetsPermuteAnchors ==
  MatchingShown
    => /\ IsPermutationOf(matchingRight, matchingLeft)
       /\ \A id \in Range(matchingLeft) :
            Cardinality({i \in 1..Len(matchingRight) : matchingRight[i] = id}) = 1
       /\ \A id \in Range(matchingLeft) \ Range(matchingPairs) :
            /\ ENABLED (HandleMatchLeft(id) /\ selectedLeft' = id)
            /\ (selectedLeft = id
                  /\ (Len(matchingPairs) + 1 = Len(matchingLeft)
                        => Len(timers) < MaxTimers))
                 => ENABLED (/\ HandleMatchRight(id)
                             /\ Len(matchingPairs') = Len(matchingPairs) + 1)

C36_Witness ==
  /\ MatchingShown
  /\ matchingRight # matchingLeft
  /\ Len(matchingPairs) = 2
  /\ selectedLeft # Null
  /\ Includes(matchingRight, selectedLeft)

\* C37: once the user has navigated while a startLearning run is fetching or
\* generating, no step switches the application to LEARN mode, no step of
\* the run changes the current session words, and the run starts no further
\* image generation.
C37_AbandonedRunNeverInstalls ==
  [][(navigatedAway /\ learnPc # "idle")
       => /\ mode' = "LEARN" => mode = "LEARN"
          /\ learnPc' # learnPc => currentSessionWords' = currentSessionWords
          /\ learnPc' = "generating"
               => (learnPc = "generating" /\ loopI' = loopI)]_vars

\* C38: every step that changes a learned-word list holding no kanji twice
\* (handleFinishBatch of a learning batch) leaves a list that holds no
\* kanji twice and that starts with the list of before, entry for entry.
C38_FinishBatchKeepsKanjiUnique ==
  [][(NoDuplicates(words) /\ words' # words)
       => (NoDuplicates(words') /\ IsPrefix(words, words'))]_vars

\* generateImageForWord has returned undefined
ReturnedUndefined == genPc = "returned" /\ genResult = "undefined"

\* C39: generateImageForWord(prompt, retries) always terminates by returning
\* (no awaited rejection escapes it), it calls the image API at most retries
\* times, it issues a further call only after a rate-limit or quota error
\* and the wait that follows it, and it returns undefined when every attempt
\* was rate-limited, when an error that is not a rate limit occurs, and when
\* a response carries no image bytes; it returns an image only after a
\* response that carried one.
C39_ImageGenerationBounded ==
  /\ [](/\ apiCalls <= genRetries
        /\ genPc \in {"idle", "calling", "waiting", "compressing", "returned"}
        /\ genPc = "returned"
             => /\ genResult \in Compressions \cup {"undefined"}
                /\ genResult \in Compressions <=> lastOutcome = "IMAGE"
                /\ (lastOutcome = "RATE_LIMIT" /\ genResult = "undefined")
                     => (apiCalls = genRetries /\ currentTry = genRetries)
        /\ genPc \in {"calling", "waiting", "compressing"}
             => (hasApiKey /\ currentTry < genRetries
                 /\ apiCalls = currentTry + 1))
  /\ [][/\ apiCalls' # apiCalls
          => /\ apiCalls' = apiCalls + 1
             /\ genPc' = "calling"
             /\ apiCalls > 0 => (genPc = "waiting" /\ lastOutcome = "RATE_LIMIT")
        /\ (genPc = "calling" /\ genPc' # genPc)
          => /\ lastOutcome' \in {"NO_BYTES", "ERROR"} => ReturnedUndefined'
             /\ lastOutcome' = "RATE_LIMIT" => genPc' = "waiting"
             /\ lastOutcome' = "IMAGE" => genPc' = "compressing"
        /\ (genPc = "waiting" /\ genPc' # genPc /\ currentTry' = genRetries)
          => ReturnedUndefined'
        /\ genPc = "returned" => UNCHANGED imageVars]_vars
  /\ (genPc # "idle" ~> genPc = "returned")

\* every one of three permitted attempts was rate-limited and the function
\* has returned undefined
C39_Witness ==
  /\ ReturnedUndefined
  /\ genRetries = 3
  /\ apiCalls = 3
  /\ currentTry = 3
  /\ lastOutcome = "RATE_LIMIT"

====
